---------------------------- MODULE Spec2Model ----------------------------
(***************************************************************************)
(* Tag query AST, canonical WQL serialization, encoder traversal with      *)
(* negation pushdown, and the legacy query adapter of                      *)
(* acapy_agent/database_manager/wql_nosql/tags.py.                         *)
(*                                                                         *)
(* Python strings are sequences of one-character strings, so that          *)
(* str.lstrip can be computed.  A caller builds trees bottom-up on a       *)
(* stack with the factories, then serializes or encodes the finished tree; *)
(* or builds a legacy query and converts it.                               *)
(***************************************************************************)
EXTENDS Naturals, Sequences, FiniteSets, TLC

VARIABLES stack, legacy, pc, out

vars == <<stack, legacy, pc, out>>

(***************************************************************************)
(* Bounds of the model.                                                    *)
(***************************************************************************)
\* Largest number of AST nodes the caller holds at once.
MaxNodes == 4
\* Longest value list of an In, name list of an Exist and subquery list
\* of an And/Or.
MaxLen == 2
\* Largest number of nodes of a legacy query.
MaxLegacyNodes == 3

\* Attribute names and values the caller uses with the factories.
Names == {<<"a">>, <<"b">>}
Values == {<<"1">>, <<"2">>}
\* Attribute keys of legacy queries (with the historical '~' marker).
LegacyKeys == {<<"a">>, <<"~", "a">>, <<"~", "~", "a">>}
LegacyValues == {<<"1">>}

SeqsUpTo(S, n) == UNION {[1..k -> S] : k \in 0..n}

(***************************************************************************)
(* Operator vocabulary.                                                    *)
(***************************************************************************)
CompareOp == {"Eq", "Neq", "Gt", "Gte", "Lt", "Lte", "Like"}

CompareOp_as_sql_str(op) ==
    CASE op = "Eq"   -> <<"=">>
      [] op = "Neq"  -> <<"!", "=">>
      [] op = "Gt"   -> <<">">>
      [] op = "Gte"  -> <<">", "=">>
      [] op = "Lt"   -> <<"<">>
      [] op = "Lte"  -> <<"<", "=">>
      [] op = "Like" -> <<"L", "I", "K", "E">>

ConjunctionOp == {"And", "Or"}

ConjunctionOp_as_sql_str(op) ==
    IF op = "And" THEN <<" ", "A", "N", "D", " ">> ELSE <<" ", "O", "R", " ">>

ConjunctionOp_negate(op) ==
    IF op = "And" THEN "Or" ELSE "And"

(***************************************************************************)
(* TagName and the TagQuery AST.                                           *)
(***************************************************************************)
TagName(value) == [value |-> value]

to_string(name) == name.value

TagQuery(variant, data) == [variant |-> variant, data |-> data]

Eq(name, value) == TagQuery("Eq", <<name, value>>)
Neq(name, value) == TagQuery("Neq", <<name, value>>)
Gt(name, value) == TagQuery("Gt", <<name, value>>)
Gte(name, value) == TagQuery("Gte", <<name, value>>)
Lt(name, value) == TagQuery("Lt", <<name, value>>)
Lte(name, value) == TagQuery("Lte", <<name, value>>)
Like(name, value) == TagQuery("Like", <<name, value>>)
In(name, values) == TagQuery("In", <<name, values>>)
Exist(names) == TagQuery("Exist", names)
And(subqueries) == TagQuery("And", subqueries)
Or(subqueries) == TagQuery("Or", subqueries)
Not(subquery) == TagQuery("Not", subquery)

\* The variants the dispatchers of to_wql_dict and encode_query know.
Variants == CompareOp \cup {"In", "Exist", "And", "Or", "Not"}

\* A variant tag no factory produces (TagQuery constructed directly).
BogusVariant == "Bogus"

(***************************************************************************)
(* Canonical serialization.  A Python dict/list/str value is written as    *)
(* the sequence of its tokens; every dict of the format has at most one    *)
(* key, so two values are equal exactly when their token sequences are.    *)
(***************************************************************************)
Tok(k, s) == [k |-> k, s |-> s]
DictOpen == Tok("{", <<>>)
DictClose == Tok("}", <<>>)
ListOpen == Tok("[", <<>>)
ListClose == Tok("]", <<>>)
Key(s) == Tok("key", s)
Str(s) == Tok("str", s)

\* {key: <value tokens>}
Dict1(key, value) == <<DictOpen, Key(key)>> \o value \o <<DictClose>>
\* [<tokens of item 1>, ...]
RECURSIVE Flatten(_)
Flatten(items) ==
    IF items = <<>> THEN <<>> ELSE Head(items) \o Flatten(Tail(items))
List(items) == <<ListOpen>> \o Flatten(items) \o <<ListClose>>

OpToken(variant) ==
    CASE variant = "Neq"  -> <<"$", "n", "e", "q">>
      [] variant = "Gt"   -> <<"$", "g", "t">>
      [] variant = "Gte"  -> <<"$", "g", "t", "e">>
      [] variant = "Lt"   -> <<"$", "l", "t">>
      [] variant = "Lte"  -> <<"$", "l", "t", "e">>
      [] variant = "Like" -> <<"$", "l", "i", "k", "e">>
      [] variant = "In"   -> <<"$", "i", "n">>
      [] variant = "Exist" -> <<"$", "e", "x", "i", "s", "t">>
      [] variant = "And"  -> <<"$", "a", "n", "d">>
      [] variant = "Or"   -> <<"$", "o", "r">>
      [] variant = "Not"  -> <<"$", "n", "o", "t">>

\* Result of to_wql_dict: the mapping, or the ValueError it raised.
WqlOk(d) == [raised |-> FALSE, d |-> d]
WqlRaise == [raised |-> TRUE, d |-> <<>>]

RECURSIVE to_wql_dict(_)
RECURSIVE to_wql_dict_all(_)
\* [sq.to_wql_dict() for sq in subqueries]: the first raise ends the loop.
to_wql_dict_all(subqueries) ==
    IF subqueries = <<>> THEN [raised |-> FALSE, ds |-> <<>>]
    ELSE LET h == to_wql_dict(Head(subqueries)) IN
         IF h.raised THEN [raised |-> TRUE, ds |-> <<>>]
         ELSE LET t == to_wql_dict_all(Tail(subqueries)) IN
              IF t.raised THEN t
              ELSE [raised |-> FALSE, ds |-> <<h.d>> \o t.ds]

\* The mapping of a comparison: Eq is the bare {name: value}, the others
\* are {name: {"$<op>": value}}.
\* Bug: every comparison is written as the bare {name: value}.
CompareDict_Bare(variant, name, value) ==
    Dict1(to_string(name), <<Str(value)>>)

CompareDict(variant, name, value) ==
    IF variant = "Eq" THEN Dict1(to_string(name), <<Str(value)>>)
    ELSE Dict1(to_string(name), Dict1(OpToken(variant), <<Str(value)>>))

to_wql_dict(self) ==
    CASE self.variant \in CompareOp ->
           WqlOk(CompareDict(self.variant, self.data[1], self.data[2]))
      [] self.variant = "In" ->
           WqlOk(Dict1(to_string(self.data[1]),
                       Dict1(OpToken("In"),
                             List([i \in 1..Len(self.data[2]) |->
                                      <<Str(self.data[2][i])>>]))))
      [] self.variant = "Exist" ->
           WqlOk(Dict1(OpToken("Exist"),
                       List([i \in 1..Len(self.data) |->
                                <<Str(to_string(self.data[i]))>>])))
      [] self.variant \in {"And", "Or"} ->
           IF self.data = <<>> THEN WqlOk(<<DictOpen, DictClose>>)
           ELSE LET r == to_wql_dict_all(self.data) IN
                IF r.raised THEN WqlRaise
                ELSE WqlOk(Dict1(OpToken(self.variant), List(r.ds)))
      [] self.variant = "Not" ->
           LET r == to_wql_dict(self.data) IN
           IF r.raised THEN WqlRaise
           ELSE WqlOk(Dict1(OpToken("Not"), r.d))
      [] OTHER -> WqlRaise

(***************************************************************************)
(* A recording test encoder: the six primitives append the call to         *)
(* self.log and return a clause.  kind selects the concrete backend:       *)
(*   "sql"   renders every clause as text;                                 *)
(*   "blank" renders the existence clause of name b, and the conjunction   *)
(*           of no clauses, as the empty text;                             *)
(*   "null"  returns no clause (None) in those two cases.                  *)
(***************************************************************************)
EncoderKinds == {"sql", "blank", "null"}

None == [none |-> TRUE, text |-> <<>>]
Clause(text) == [none |-> FALSE, text |-> text]

NewEncoder(kind) == [kind |-> kind, log |-> <<>>]

Call(prim, op, name, value, values, negate, clauses) ==
    [prim |-> prim, op |-> op, name |-> name, value |-> value,
     values |-> values, negate |-> negate, clauses |-> clauses]

Logged(self, call) == [self EXCEPT !.log = Append(@, call)]

RECURSIVE Join(_, _)
Join(texts, sep) ==
    IF texts = <<>> THEN <<>>
    ELSE IF Len(texts) = 1 THEN texts[1]
    ELSE texts[1] \o sep \o Join(Tail(texts), sep)

Negated(text, negate) ==
    IF negate THEN <<"N", "O", "T", "(">> \o text \o <<")">> ELSE text

Degenerate(self) ==
    IF self.kind = "blank" THEN Clause(<<>>) ELSE None

encode_name(self, name) ==
    [self |-> Logged(self, Call("encode_name", "", to_string(name), <<>>,
                                <<>>, FALSE, <<>>)),
     r |-> to_string(name)]

encode_value(self, value) ==
    [self |-> Logged(self, Call("encode_value", "", <<>>, value, <<>>,
                                FALSE, <<>>)),
     r |-> <<"'">> \o value \o <<"'">>]

encode_op_clause(self, op, enc_name, enc_value, negate) ==
    [self |-> Logged(self, Call("encode_op_clause", op, enc_name, enc_value,
                                <<>>, negate, <<>>)),
     r |-> Clause(Negated(enc_name \o <<" ">> \o CompareOp_as_sql_str(op)
                            \o <<" ">> \o enc_value, negate))]

encode_in_clause(self, enc_name, enc_values, negate) ==
    [self |-> Logged(self, Call("encode_in_clause", "", enc_name, <<>>,
                                enc_values, negate, <<>>)),
     r |-> Clause(Negated(enc_name \o <<" ", "I", "N", " ", "(">>
                            \o Join(enc_values, <<",">>) \o <<")">>, negate))]

encode_exist_clause(self, enc_name, negate) ==
    [self |-> Logged(self, Call("encode_exist_clause", "", enc_name, <<>>,
                                <<>>, negate, <<>>)),
     r |-> IF self.kind # "sql" /\ enc_name = <<"b">>
           THEN Degenerate(self)
           ELSE Clause(Negated(enc_name \o <<" ", "I", "S", " ", "S", "E", "T">>,
                               negate))]

encode_conj_clause(self, op, clauses) ==
    [self |-> Logged(self, Call("encode_conj_clause", op, <<>>, <<>>, <<>>,
                                FALSE, clauses)),
     r |-> IF self.kind # "sql" /\ clauses = <<>>
           THEN Degenerate(self)
           ELSE Clause(<<"(">>
                       \o Join([i \in 1..Len(clauses) |-> clauses[i].text],
                               ConjunctionOp_as_sql_str(op))
                       \o <<")">>)]

(***************************************************************************)
(* The traversal of TagQueryEncoder.  Every operator returns the encoder   *)
(* after the calls it made, the clause, and whether ValueError was raised. *)
(***************************************************************************)
Ret(x) == [self |-> x.self, clause |-> x.r, raised |-> FALSE]
Raise(self) == [self |-> self, clause |-> None, raised |-> TRUE]

\* Bug: a negated Neq is rewritten to its algebraic inverse.
encode_op_Inverting(self, op, name, value, negate) ==
    LET n == encode_name(self, name)
        v == encode_value(n.self, value)
    IN  IF op = "Neq" /\ negate
        THEN Ret(encode_op_clause(v.self, "Eq", n.r, v.r, FALSE))
        ELSE Ret(encode_op_clause(v.self, op, n.r, v.r, negate))

encode_op(self, op, name, value, negate) ==
    LET n == encode_name(self, name)
        v == encode_value(n.self, value)
    IN  Ret(encode_op_clause(v.self, op, n.r, v.r, negate))

\* [self.encode_value(v) for v in values]
RECURSIVE encode_values(_, _)
encode_values(self, values) ==
    IF values = <<>> THEN [self |-> self, r |-> <<>>]
    ELSE LET h == encode_value(self, Head(values))
             t == encode_values(h.self, Tail(values))
         IN  [self |-> t.self, r |-> <<h.r>> \o t.r]

\* Bug: the name is encoded again after the values.
encode_in_Reencoding(self, name, values, negate) ==
    LET n == encode_name(self, name)
        vs == encode_values(n.self, values)
        m == encode_name(vs.self, name)
    IN  Ret(encode_in_clause(m.self, m.r, vs.r, negate))

encode_in(self, name, values, negate) ==
    LET n == encode_name(self, name)
        vs == encode_values(n.self, values)
    IN  Ret(encode_in_clause(vs.self, n.r, vs.r, negate))

\* "if c": Python truthiness of a clause (None and "" are falsy).
Truthy(c) == ~c.none /\ c.text # <<>>

\* Bug: "if clause" instead of "if clause is not None".
IsNotNone_Truthy(c) == ~c.none /\ c.text # <<>>

\* "if clause is not None"
IsNotNone(c) == ~c.none

RECURSIVE encode_exist(_, _, _)
RECURSIVE encode_exist_each(_, _, _)
\* [self.encode_exist([name], negate) for name in names]
encode_exist_each(self, names, negate) ==
    IF names = <<>> THEN [self |-> self, r |-> <<>>]
    ELSE LET h == encode_exist(self, <<Head(names)>>, negate)
             t == encode_exist_each(h.self, Tail(names), negate)
         IN  [self |-> t.self, r |-> <<h.clause>> \o t.r]

encode_exist(self, names, negate) ==
    IF names = <<>> THEN [self |-> self, clause |-> None, raised |-> FALSE]
    ELSE IF Len(names) = 1 THEN
        LET n == encode_name(self, names[1])
        IN  Ret(encode_exist_clause(n.self, n.r, negate))
    ELSE
        LET cs == encode_exist_each(self, names, negate)
        IN  Ret(encode_conj_clause(cs.self, "And", SelectSeq(cs.r, Truthy)))

\* Bug: the operator is not swapped under negation.
FinalOp_Keep(op, negate) == op

\* "op.negate() if negate else op"
FinalOp(op, negate) == IF negate THEN ConjunctionOp_negate(op) ELSE op

\* Bug: a Not hands its subquery True instead of the inverted flag.
NotPolarity_Force(negate) == TRUE

\* Bug: a Not hands its subquery the flag unchanged.
NotPolarity_Keep(negate) == negate

\* "not negate": the flag a Not hands to its subquery.
NotPolarity(negate) == ~negate

RECURSIVE encode_query(_, _, _)
RECURSIVE encode_subqueries(_, _, _)
\* The loop of encode_conj: a raise inside a subquery ends it.
encode_subqueries(self, subqueries, negate) ==
    IF subqueries = <<>> THEN [self |-> self, r |-> <<>>, raised |-> FALSE]
    ELSE LET h == encode_query(self, Head(subqueries), negate) IN
         IF h.raised THEN [self |-> h.self, r |-> <<>>, raised |-> TRUE]
         ELSE LET t == encode_subqueries(h.self, Tail(subqueries), negate) IN
              IF t.raised THEN t
              ELSE [self |-> t.self, raised |-> FALSE,
                    r |-> (IF IsNotNone(h.clause) THEN <<h.clause>> ELSE <<>>)
                          \o t.r]

\* Bug: a ValueError raised inside a subquery is swallowed.
encode_conj_Swallow(self, op, subqueries, negate) ==
    LET cs == encode_subqueries(self, subqueries, negate) IN
    Ret(encode_conj_clause(cs.self, FinalOp(op, negate), cs.r))

encode_conj(self, op, subqueries, negate) ==
    LET cs == encode_subqueries(self, subqueries, negate) IN
    IF cs.raised THEN Raise(cs.self)
    ELSE Ret(encode_conj_clause(cs.self, FinalOp(op, negate), cs.r))

encode_query(self, query, negate) ==
    CASE query.variant \in CompareOp ->
           encode_op(self, query.variant, query.data[1], query.data[2], negate)
      [] query.variant = "In" ->
           encode_in(self, query.data[1], query.data[2], negate)
      [] query.variant = "Exist" ->
           encode_exist(self, query.data, negate)
      [] query.variant \in {"And", "Or"} ->
           encode_conj(self, query.variant, query.data, negate)
      [] query.variant = "Not" ->
           encode_query(self, query.data, NotPolarity(negate))
      [] OTHER -> Raise(self)

(***************************************************************************)
(* The legacy query model (query.py) and the adapter query_to_tagquery.    *)
(***************************************************************************)
LegacyCompare == {"EqQuery", "NeqQuery", "GtQuery", "GteQuery", "LtQuery",
                  "LteQuery", "LikeQuery"}

\* A legacy node type the adapter has no branch for.
UnmappedType == "RawQuery"

CompareQuery(type, key, value) == [type |-> type, key |-> key, value |-> value]
InQuery(key, values) == [type |-> "InQuery", key |-> key, values |-> values]
ExistQuery(keys) == [type |-> "ExistQuery", keys |-> keys]
AndQuery(subqueries) == [type |-> "AndQuery", subqueries |-> subqueries]
OrQuery(subqueries) == [type |-> "OrQuery", subqueries |-> subqueries]
NotQuery(subquery) == [type |-> "NotQuery", subquery |-> subquery]
UnmappedQuery == [type |-> UnmappedType]

\* str.lstrip("~"): removes every leading '~'.
RECURSIVE lstrip(_)
lstrip(s) ==
    IF s # <<>> /\ Head(s) = "~" THEN lstrip(Tail(s)) ELSE s

\* The TagQuery variant each legacy comparison type is mapped to.
VariantOf(type) ==
    CASE type = "EqQuery"   -> "Eq"
      [] type = "NeqQuery"  -> "Neq"
      [] type = "GtQuery"   -> "Gt"
      [] type = "GteQuery"  -> "Gte"
      [] type = "LtQuery"   -> "Lt"
      [] type = "LteQuery"  -> "Lte"
      [] type = "LikeQuery" -> "Like"

Converted(q) == [raised |-> FALSE, q |-> q]
ConvertRaise == [raised |-> TRUE, q |-> <<>>]

RECURSIVE query_to_tagquery(_)
RECURSIVE query_to_tagquery_all(_)
\* [query_to_tagquery(sq) for sq in q.subqueries]
query_to_tagquery_all(subqueries) ==
    IF subqueries = <<>> THEN [raised |-> FALSE, qs |-> <<>>]
    ELSE LET h == query_to_tagquery(Head(subqueries)) IN
         IF h.raised THEN [raised |-> TRUE, qs |-> <<>>]
         ELSE LET t == query_to_tagquery_all(Tail(subqueries)) IN
              IF t.raised THEN t
              ELSE [raised |-> FALSE, qs |-> <<h.q>> \o t.qs]

query_to_tagquery(q) ==
    CASE q.type \in {"AndQuery", "OrQuery"} ->
           LET r == query_to_tagquery_all(q.subqueries) IN
           IF r.raised THEN ConvertRaise
           ELSE Converted(IF q.type = "AndQuery" THEN And(r.qs) ELSE Or(r.qs))
      [] q.type = "NotQuery" ->
           LET r == query_to_tagquery(q.subquery) IN
           IF r.raised THEN ConvertRaise ELSE Converted(Not(r.q))
      [] q.type \in LegacyCompare ->
           Converted(TagQuery(VariantOf(q.type),
                              <<TagName(lstrip(q.key)), q.value>>))
      [] q.type = "InQuery" ->
           Converted(In(TagName(lstrip(q.key)), q.values))
      [] q.type = "ExistQuery" ->
           Converted(Exist([i \in 1..Len(q.keys) |-> TagName(lstrip(q.keys[i]))]))
      [] OTHER -> ConvertRaise

(***************************************************************************)
(* The caller.  Trees are built bottom-up: a factory pushes its node on    *)
(* the stack, And/Or/Not take their subqueries from the top of the stack.  *)
(* A vocabulary is the set of arguments the caller passes to the           *)
(* factories; width is the number of trees it holds at once.               *)
(***************************************************************************)
\* Every leaf over Names and Values.
RichVocabulary ==
    [ops |-> CompareOp, names |-> Names, values |-> Values,
     valueLists |-> SeqsUpTo(Values, MaxLen),
     nameLists |-> SeqsUpTo(Names, MaxLen),
     types |-> LegacyCompare, keys |-> LegacyKeys,
     legacyValueLists |-> SeqsUpTo(LegacyValues, MaxLen),
     keyLists |-> SeqsUpTo(LegacyKeys, MaxLen)]

\* A few leaves of every shape, for trees that are wide and deep.
CoreVocabulary ==
    [ops |-> {"Eq", "Neq"}, names |-> {<<"a">>}, values |-> {<<"1">>},
     valueLists |-> {<<>>, <<<<"1">>, <<"2">>>>},
     nameLists |-> {<<>>, <<<<"b">>>>, <<<<"a">>, <<"b">>>>},
     types |-> {"EqQuery", "NeqQuery"}, keys |-> LegacyKeys,
     legacyValueLists |-> {<<<<"1">>>>},
     keyLists |-> {<<>>, <<<<"~", "a">>, <<"~", "~", "a">>>>}]

RECURSIVE Size(_)
RECURSIVE SizeAll(_)
SizeAll(qs) == IF qs = <<>> THEN 0 ELSE Size(Head(qs)) + SizeAll(Tail(qs))
\* Number of nodes of a TagQuery or legacy tree.
Size(q) ==
    LET tag == IF "variant" \in DOMAIN q THEN q.variant ELSE q.type IN
    CASE tag \in {"And", "Or"} -> 1 + SizeAll(q.data)
      [] tag = "Not" -> 1 + Size(q.data)
      [] tag \in {"AndQuery", "OrQuery"} -> 1 + SizeAll(q.subqueries)
      [] tag = "NotQuery" -> 1 + Size(q.subquery)
      [] OTHER -> 1

\* There is room for one more node, and for the conjunction that will
\* join the trees held.
Room(held, max) == SizeAll(held) + 1 + (IF held # <<>> THEN 1 ELSE 0) <= max

Top(held, k) == SubSeq(held, Len(held) - k + 1, Len(held))

Idle == [op |-> "none"]

Init ==
    /\ stack = <<>>
    /\ legacy = <<>>
    /\ pc = "build"
    /\ out = Idle

\* The caller may make one more tree.
CanPush(width) ==
    /\ pc = "build"
    /\ legacy = <<>>
    /\ Room(stack, MaxNodes)
    /\ Len(stack) < width

\* The caller may wrap the top k trees of the stack in one more node.
CanCombine(k) ==
    /\ pc = "build"
    /\ legacy = <<>>
    /\ k \in 1..Len(stack)
    /\ SizeAll(stack) + 1 <= MaxNodes

\* The stack with its top k trees replaced by the tree q made of them.
Combined(held, k, q) == Append(SubSeq(held, 1, Len(held) - k), q)

\* The factory of each comparison variant.
Compare(op, name, value) ==
    CASE op = "Eq"   -> Eq(name, value)
      [] op = "Neq"  -> Neq(name, value)
      [] op = "Gt"   -> Gt(name, value)
      [] op = "Gte"  -> Gte(name, value)
      [] op = "Lt"   -> Lt(name, value)
      [] op = "Lte"  -> Lte(name, value)
      [] op = "Like" -> Like(name, value)

BuildCompare(voc, width) ==
    /\ CanPush(width)
    /\ \E op \in voc.ops, n \in voc.names, v \in voc.values :
          stack' = Append(stack, Compare(op, TagName(n), v))
    /\ UNCHANGED <<legacy, pc, out>>

BuildIn(voc, width) ==
    /\ CanPush(width)
    /\ \E n \in voc.names, vs \in voc.valueLists :
          stack' = Append(stack, In(TagName(n), vs))
    /\ UNCHANGED <<legacy, pc, out>>

BuildExist(voc, width) ==
    /\ CanPush(width)
    /\ \E ns \in voc.nameLists :
          stack' = Append(stack, Exist([i \in 1..Len(ns) |-> TagName(ns[i])]))
    /\ UNCHANGED <<legacy, pc, out>>

\* And([]) and Or([]): a conjunction of no subqueries.
BuildEmpty(width) ==
    /\ CanPush(width)
    /\ \E op \in ConjunctionOp :
          stack' = Append(stack, IF op = "And" THEN And(<<>>) ELSE Or(<<>>))
    /\ UNCHANGED <<legacy, pc, out>>

BuildAnd ==
    /\ \E k \in 1..Len(stack) :
          CanCombine(k) /\ stack' = Combined(stack, k, And(Top(stack, k)))
    /\ UNCHANGED <<legacy, pc, out>>

BuildOr ==
    /\ \E k \in 1..Len(stack) :
          CanCombine(k) /\ stack' = Combined(stack, k, Or(Top(stack, k)))
    /\ UNCHANGED <<legacy, pc, out>>

BuildNot ==
    /\ CanCombine(1)
    /\ stack' = Combined(stack, 1, Not(stack[Len(stack)]))
    /\ UNCHANGED <<legacy, pc, out>>

\* TagQuery(...) called directly with a tag outside the closed set.
BuildBogus(width) ==
    /\ CanPush(width)
    /\ stack' = Append(stack, TagQuery(BogusVariant, <<>>))
    /\ UNCHANGED <<legacy, pc, out>>

\* query.to_wql_dict() on the tree built last.
Serialize ==
    /\ pc = "build"
    /\ stack # <<>>
    /\ pc' = "done"
    /\ out' = [op |-> "to_wql_dict", r |-> to_wql_dict(stack[Len(stack)])]
    /\ UNCHANGED <<stack, legacy>>

\* encoder.encode_query(query, negate) on the finished tree.
Encode ==
    /\ pc = "build"
    /\ Len(stack) = 1
    /\ \E kind \in EncoderKinds, negate \in BOOLEAN :
          out' = [op |-> "encode_query", kind |-> kind, negate |-> negate,
                  r |-> encode_query(NewEncoder(kind), stack[1], negate)]
    /\ pc' = "done"
    /\ UNCHANGED <<stack, legacy>>

(***************************************************************************)
(* The same caller building a legacy query and handing it to the adapter.  *)
(***************************************************************************)
CanPushLegacy(width) ==
    /\ pc = "build"
    /\ stack = <<>>
    /\ Room(legacy, MaxLegacyNodes)
    /\ Len(legacy) < width

CanCombineLegacy(k) ==
    /\ pc = "build"
    /\ stack = <<>>
    /\ k \in 1..Len(legacy)
    /\ SizeAll(legacy) + 1 <= MaxLegacyNodes

LegacyCompareQuery(voc, width) ==
    /\ CanPushLegacy(width)
    /\ \E t \in voc.types, k \in voc.keys, v \in LegacyValues :
          legacy' = Append(legacy, CompareQuery(t, k, v))
    /\ UNCHANGED <<stack, pc, out>>

LegacyInQuery(voc, width) ==
    /\ CanPushLegacy(width)
    /\ \E k \in voc.keys, vs \in voc.legacyValueLists :
          legacy' = Append(legacy, InQuery(k, vs))
    /\ UNCHANGED <<stack, pc, out>>

LegacyExistQuery(voc, width) ==
    /\ CanPushLegacy(width)
    /\ \E ks \in voc.keyLists : legacy' = Append(legacy, ExistQuery(ks))
    /\ UNCHANGED <<stack, pc, out>>

LegacyEmpty(width) ==
    /\ CanPushLegacy(width)
    /\ \E t \in {"AndQuery", "OrQuery"} :
          legacy' = Append(legacy, IF t = "AndQuery" THEN AndQuery(<<>>)
                                   ELSE OrQuery(<<>>))
    /\ UNCHANGED <<stack, pc, out>>

LegacyAndQuery ==
    /\ \E k \in 1..Len(legacy) :
          /\ CanCombineLegacy(k)
          /\ legacy' = Combined(legacy, k, AndQuery(Top(legacy, k)))
    /\ UNCHANGED <<stack, pc, out>>

LegacyOrQuery ==
    /\ \E k \in 1..Len(legacy) :
          /\ CanCombineLegacy(k)
          /\ legacy' = Combined(legacy, k, OrQuery(Top(legacy, k)))
    /\ UNCHANGED <<stack, pc, out>>

LegacyNotQuery ==
    /\ CanCombineLegacy(1)
    /\ legacy' = Combined(legacy, 1, NotQuery(legacy[Len(legacy)]))
    /\ UNCHANGED <<stack, pc, out>>

\* A node of a type query_to_tagquery has no branch for.
LegacyUnmapped(width) ==
    /\ CanPushLegacy(width)
    /\ legacy' = Append(legacy, UnmappedQuery)
    /\ UNCHANGED <<stack, pc, out>>

\* query_to_tagquery(q)
Convert ==
    /\ pc = "build"
    /\ Len(legacy) = 1
    /\ pc' = "done"
    /\ out' = [op |-> "query_to_tagquery", r |-> query_to_tagquery(legacy[1])]
    /\ UNCHANGED <<stack, legacy>>

\* The request is over; the caller starts the next one.
Reset ==
    /\ pc = "done"
    /\ stack' = <<>>
    /\ legacy' = <<>>
    /\ pc' = "build"
    /\ out' = Idle

Step(voc, width) ==
    \/ BuildCompare(voc, width) \/ BuildIn(voc, width)
    \/ BuildExist(voc, width) \/ BuildEmpty(width) \/ BuildBogus(width)
    \/ BuildAnd \/ BuildOr \/ BuildNot
    \/ Serialize \/ Encode
    \/ LegacyCompareQuery(voc, width) \/ LegacyInQuery(voc, width)
    \/ LegacyExistQuery(voc, width) \/ LegacyEmpty(width)
    \/ LegacyUnmapped(width)
    \/ LegacyAndQuery \/ LegacyOrQuery \/ LegacyNotQuery
    \/ Convert \/ Reset

\* Wide trees over the core vocabulary.
Next == Step(CoreVocabulary, MaxLen)

Spec == Init /\ [][Next]_vars

\* Chains (one subquery per node) over every leaf.
NextChain == Step(RichVocabulary, 1)

SpecChain == Init /\ [][NextChain]_vars

(***************************************************************************)
(* Properties.                                                             *)
(***************************************************************************)
\* encode_query has returned (or raised) for the tree stack[1].
Encoded == pc = "done" /\ out.op = "encode_query"
\* to_wql_dict has returned (or raised) for the tree on top of the stack.
Serialized == pc = "done" /\ out.op = "to_wql_dict"
\* query_to_tagquery has returned (or raised) for the query legacy[1].
Adapted == pc = "done" /\ out.op = "query_to_tagquery"

\* A second run on a fresh encoder of the same kind as the one used.
Rerun(q, negate) == encode_query(NewEncoder(out.kind), q, negate)

\* Same calls with the same arguments in the same order, same result.
SameRun(r1, r2) ==
    /\ r1.self.log = r2.self.log
    /\ r1.clause = r2.clause
    /\ r1.raised = r2.raised

IsConj(q) == q.variant \in ConjunctionOp
IsCompare(q) == q.variant \in CompareOp

IsNameCall(c) == c.prim = "encode_name"
IsValueCall(c) == c.prim = "encode_value"
IsOpCall(c) == c.prim = "encode_op_clause"
IsClauseCall(c) ==
    c.prim \in {"encode_op_clause", "encode_in_clause", "encode_exist_clause",
                "encode_conj_clause"}

Last(seq) == seq[Len(seq)]

\* C1: De Morgan equivalence.  Encoding Not(And([A, B])) with negate=false
\* makes the same primitive calls, with the same arguments in the same
\* order, and gives the same result as encoding Or([Not(A), Not(B)]) with
\* negate=false.
C1_DeMorgan ==
    (/\ Encoded
     /\ ~out.negate
     /\ stack[1].variant = "Not"
     /\ stack[1].data.variant = "And"
     /\ Len(stack[1].data.data) = 2)
    => LET A == stack[1].data.data[1]
           B == stack[1].data.data[2]
       IN  SameRun(out.r, Rerun(Or(<<Not(A), Not(B)>>), FALSE))

\* Not(And([A, B])) was encoded with negate=false, A being a comparison and
\* B an Exist of two names; the conjunction primitive was asked for Or.
C1_Witness ==
    /\ Encoded
    /\ ~out.negate
    /\ ~out.r.raised
    /\ stack[1].variant = "Not"
    /\ stack[1].data.variant = "And"
    /\ Len(stack[1].data.data) = 2
    /\ IsCompare(stack[1].data.data[1])
    /\ stack[1].data.data[2].variant = "Exist"
    /\ Len(stack[1].data.data[2].data) = 2
    /\ Last(out.r.self.log).op = "Or"
    /\ Len(Last(out.r.self.log).clauses) = 2

\* C3: double negation is identity.  Encoding Not(Not(Q)) with either value
\* of negate makes the same calls and gives the same result as encoding Q
\* with that value.
C3_DoubleNegation ==
    (/\ Encoded
     /\ stack[1].variant = "Not"
     /\ stack[1].data.variant = "Not")
    => SameRun(out.r, Rerun(stack[1].data.data, out.negate))

\* Not(Not(Q)) was encoded with negate=true for a conjunction Q of a
\* comparison, and the comparison primitive saw negate=true.
C3_Witness ==
    /\ Encoded
    /\ out.negate
    /\ stack[1].variant = "Not"
    /\ stack[1].data.variant = "Not"
    /\ IsConj(stack[1].data.data)
    /\ Len(stack[1].data.data.data) = 1
    /\ IsCompare(stack[1].data.data.data[1])
    /\ Len(out.r.self.log) = 4
    /\ out.r.self.log[3].negate

NonNull(c) == ~c.none

\* C4: an And/Or node invokes encode_conj_clause exactly once, after its
\* children, with exactly the non-null clauses of its children in child
\* order; with no child, or with only null children, the clause list is
\* empty and the call is still made.
C4_ConjOnce ==
    (Encoded /\ IsConj(stack[1]) /\ ~out.r.raised)
    => LET subs == stack[1].data
           runs == [i \in 1..Len(subs) |-> Rerun(subs[i], out.negate)]
           log == out.r.self.log
       IN  /\ log # <<>>
           /\ SubSeq(log, 1, Len(log) - 1)
                = Flatten([i \in 1..Len(subs) |-> runs[i].self.log])
           /\ Last(log).prim = "encode_conj_clause"
           /\ Last(log).clauses
                = SelectSeq([i \in 1..Len(subs) |-> runs[i].clause], NonNull)
           /\ out.r.clause = encode_conj_clause(NewEncoder(out.kind),
                                                Last(log).op,
                                                Last(log).clauses).r

\* A conjunction of two children was encoded: one yields no clause, the
\* other the empty clause text, which is kept.
C4_Witness ==
    /\ Encoded
    /\ IsConj(stack[1])
    /\ Len(stack[1].data) = 2
    /\ ~out.r.raised
    /\ Rerun(stack[1].data[1], out.negate).clause = None
    /\ Rerun(stack[1].data[2], out.negate).clause = Clause(<<>>)
    /\ Last(out.r.self.log).clauses = <<Clause(<<>>)>>

\* The clause primitives a traversal must call, in order, when the flag at
\* a node is n0 XOR the parity of the Not nodes above it.
RECURSIVE PolarityCalls(_, _, _)
PolarityCalls(q, n0, nots) ==
    LET flag == (n0 # (nots % 2 = 1))
        call(prim, negate, op) == [prim |-> prim, negate |-> negate, op |-> op]
    IN  CASE IsCompare(q) -> <<call("encode_op_clause", flag, q.variant)>>
          [] q.variant = "In" -> <<call("encode_in_clause", flag, "")>>
          [] q.variant = "Exist" ->
               [i \in 1..Len(q.data) |-> call("encode_exist_clause", flag, "")]
               \o (IF Len(q.data) >= 2
                   THEN <<call("encode_conj_clause", FALSE, "And")>>
                   ELSE <<>>)
          [] IsConj(q) ->
               Flatten([i \in 1..Len(q.data) |->
                           PolarityCalls(q.data[i], n0, nots)])
               \o <<call("encode_conj_clause", FALSE,
                         IF flag THEN (IF q.variant = "And" THEN "Or" ELSE "And")
                         ELSE q.variant)>>
          [] q.variant = "Not" -> PolarityCalls(q.data, n0, nots + 1)

\* C10: polarity invariant.  The negate flag every leaf primitive receives
\* is the initial flag XOR the parity of the Not nodes on the path to the
\* leaf; an And/Or node passes its own operator when that flag is false at
\* the node and the swapped operator when it is true; And/Or never change
\* the flag of their children.
C10_Polarity ==
    (Encoded /\ ~out.r.raised)
    => LET calls == SelectSeq(out.r.self.log, IsClauseCall)
       IN  [i \in 1..Len(calls) |->
               [prim |-> calls[i].prim, negate |-> calls[i].negate,
                op |-> calls[i].op]]
           = PolarityCalls(stack[1], out.negate, 0)

\* A negated Or under an And was encoded with negate=true: the leaf below
\* one Not saw negate=false and the Or kept its operator, while the And at
\* the root was swapped to Or.
C10_Witness ==
    /\ Encoded
    /\ out.negate
    /\ ~out.r.raised
    /\ stack[1].variant = "And"
    /\ Len(stack[1].data) = 1
    /\ stack[1].data[1].variant = "Not"
    /\ stack[1].data[1].data.variant = "Or"
    /\ Len(stack[1].data[1].data.data) = 1
    /\ IsCompare(stack[1].data[1].data.data[1])
    /\ LET calls == SelectSeq(out.r.self.log, IsClauseCall)
       IN  /\ Len(calls) = 3
           /\ ~calls[1].negate
           /\ calls[2].op = "Or"
           /\ calls[3].op = "Or"

\* Structural equality of two TagQuery trees.
RECURSIVE SameTree(_, _)
RECURSIVE SameTrees(_, _)
SameTrees(qs1, qs2) ==
    /\ Len(qs1) = Len(qs2)
    /\ \A i \in 1..Len(qs1) : SameTree(qs1[i], qs2[i])
SameTree(q1, q2) ==
    /\ q1.variant = q2.variant
    /\ CASE IsConj(q1) -> SameTrees(q1.data, q2.data)
         [] q1.variant = "Not" -> SameTree(q1.data, q2.data)
         [] q1.variant \in CompareOp \cup {"In", "Exist"} -> q1.data = q2.data
         [] OTHER -> TRUE

\* The tree with every Or([]) replaced by And([]).
RECURSIVE Vacuous(_)
Vacuous(q) ==
    CASE IsConj(q) ->
           IF q.data = <<>> THEN And(<<>>)
           ELSE TagQuery(q.variant, [i \in 1..Len(q.data) |-> Vacuous(q.data[i])])
      [] q.variant = "Not" -> Not(Vacuous(q.data))
      [] OTHER -> q

\* A node outside the closed variant set, at any depth under And/Or/Not.
RECURSIVE HasBogus(_)
HasBogus(q) ==
    CASE IsConj(q) -> \E i \in 1..Len(q.data) : HasBogus(q.data[i])
      [] q.variant = "Not" -> HasBogus(q.data)
      [] OTHER -> q.variant \notin Variants

RECURSIVE HasUnmapped(_)
HasUnmapped(q) ==
    CASE q.type \in {"AndQuery", "OrQuery"} ->
           \E i \in 1..Len(q.subqueries) : HasUnmapped(q.subqueries[i])
      [] q.type = "NotQuery" -> HasUnmapped(q.subquery)
      [] OTHER -> q.type \notin LegacyCompare \cup {"InQuery", "ExistQuery"}

\* C9: encode_query and to_wql_dict raise the invalid-query fault, and
\* return no clause or mapping, exactly when the tree holds a node of an
\* unknown variant at some depth under And/Or/Not (never for a tree built
\* through the factories); query_to_tagquery raises the unsupported-type
\* fault exactly when the legacy query holds a node of an unmapped type.
C9_Faults ==
    /\ Encoded =>
          /\ out.r.raised <=> HasBogus(stack[1])
          /\ out.r.raised => out.r.clause = None
    /\ Serialized =>
          /\ out.r.raised <=> HasBogus(Last(stack))
          /\ out.r.raised => out.r.d = <<>>
    /\ Adapted =>
          /\ out.r.raised <=> HasUnmapped(legacy[1])
          /\ out.r.raised => out.r.q = <<>>

\* encode_query raised for a tree whose unknown node lies two levels down,
\* after the first subquery had been encoded.
C9_Witness ==
    /\ Encoded
    /\ out.r.raised
    /\ IsConj(stack[1])
    /\ Len(stack[1].data) = 2
    /\ IsCompare(stack[1].data[1])
    /\ stack[1].data[2].variant = "Not"
    /\ stack[1].data[2].data.variant = BogusVariant
    /\ Len(out.r.self.log) = 3

\* The first character of a key removed when it is the legacy marker.
StripOne(key) == IF key # <<>> /\ Head(key) = "~" THEN Tail(key) ELSE key

\* The tree the adapter is to produce: the same structure, every key
\* stripped of exactly one leading marker.
RECURSIVE Stripped(_)
Stripped(q) ==
    CASE q.type = "AndQuery" ->
           And([i \in 1..Len(q.subqueries) |-> Stripped(q.subqueries[i])])
      [] q.type = "OrQuery" ->
           Or([i \in 1..Len(q.subqueries) |-> Stripped(q.subqueries[i])])
      [] q.type = "NotQuery" -> Not(Stripped(q.subquery))
      [] q.type \in LegacyCompare ->
           TagQuery(VariantOf(q.type), <<TagName(StripOne(q.key)), q.value>>)
      [] q.type = "InQuery" -> In(TagName(StripOne(q.key)), q.values)
      [] q.type = "ExistQuery" ->
           Exist([i \in 1..Len(q.keys) |-> TagName(StripOne(q.keys[i]))])

\* C2: legacy marker stripping.  query_to_tagquery removes exactly one
\* leading '~' from every key of a comparison, membership or existence
\* node: "~name" becomes "name", "~~name" becomes "~name", and a key
\* without the marker is unchanged.
C2_StripOneMarker ==
    (Adapted /\ ~out.r.raised) => SameTree(out.r.q, Stripped(legacy[1]))

\* C6: Exist dispatch.  No name: the null clause and no primitive call.
\* One name: encode_name once, then encode_exist_clause(encName, negate).
\* Two names or more: each name encoded and given to encode_exist_clause
\* with the same negate, then one encode_conj_clause call with operator And
\* and exactly the clauses encode_exist_clause returned, in name order,
\* whatever non-null values they are (the empty clause text included).
C6_ExistDispatch ==
    (Encoded /\ stack[1].variant = "Exist")
    => LET names == stack[1].data
           n == Len(names)
           log == out.r.self.log
           enc(i) == encode_name(NewEncoder(out.kind), names[i]).r
           ret(i) == encode_exist_clause(NewEncoder(out.kind), enc(i),
                                         out.negate).r
           each == \A i \in 1..n :
                     /\ log[2 * i - 1].prim = "encode_name"
                     /\ log[2 * i - 1].name = to_string(names[i])
                     /\ log[2 * i].prim = "encode_exist_clause"
                     /\ log[2 * i].name = enc(i)
                     /\ log[2 * i].negate = out.negate
       IN  /\ ~out.r.raised
           /\ n = 0 => log = <<>> /\ out.r.clause = None
           /\ n = 1 => Len(log) = 2 /\ each /\ out.r.clause = ret(1)
           /\ (n >= 2 /\ \A i \in 1..n : ~ret(i).none)
              => /\ Len(log) = 2 * n + 1
                 /\ each
                 /\ Last(log).prim = "encode_conj_clause"
                 /\ Last(log).op = "And"
                 /\ Last(log).clauses = [i \in 1..n |-> ret(i)]

\* C7: a comparison variant reached with ambient flag negate calls
\* encode_op_clause with the CompareOp of that variant and with that
\* negate value: the operator is never rewritten to its inverse and the
\* flag is never inverted at the leaf.
C7_OpUnchanged ==
    (Encoded /\ ~out.r.raised)
    => LET ops == SelectSeq(out.r.self.log, IsOpCall)
           reached == SelectSeq(PolarityCalls(stack[1], out.negate, 0), IsOpCall)
       IN  /\ Len(ops) = Len(reached)
           /\ \A i \in 1..Len(ops) :
                 /\ ops[i].op = reached[i].op
                 /\ ops[i].negate = reached[i].negate

\* Neq under one Not was encoded with negate=false: encode_op_clause was
\* asked for Neq with negate=true.
C7_Witness ==
    /\ Encoded
    /\ ~out.negate
    /\ stack[1].variant = "Not"
    /\ stack[1].data.variant = "Neq"
    /\ Len(out.r.self.log) = 3
    /\ out.r.self.log[3].prim = "encode_op_clause"
    /\ out.r.self.log[3].op = "Neq"
    /\ out.r.self.log[3].negate

IsLeaf(q) == q.variant \in CompareOp \cup {"In", "Exist"}

\* A chain: every And/Or has at most one subquery.
RECURSIVE IsChain(_)
IsChain(q) ==
    CASE IsConj(q) -> Len(q.data) = 0 \/ (Len(q.data) = 1 /\ IsChain(q.data[1]))
      [] q.variant = "Not" -> IsChain(q.data)
      [] OTHER -> TRUE

\* The node at the end of a chain.
RECURSIVE ChainEnd(_)
ChainEnd(q) ==
    CASE IsConj(q) /\ q.data # <<>> -> ChainEnd(q.data[1])
      [] q.variant = "Not" -> ChainEnd(q.data)
      [] OTHER -> q

\* The number of And/Or nodes above the end of a chain.
RECURSIVE ConjAbove(_)
ConjAbove(q) ==
    CASE IsConj(q) /\ q.data # <<>> -> 1 + ConjAbove(q.data[1])
      [] q.variant = "Not" -> ConjAbove(q.data)
      [] OTHER -> 0

\* The calls made for the leaf of the encoded chain: the log without the
\* conjunction calls of the nodes above it.
LeafLog == SubSeq(out.r.self.log, 1, Len(out.r.self.log) - ConjAbove(stack[1]))

LeafReached ==
    Encoded /\ ~out.r.raised /\ IsChain(stack[1]) /\ IsLeaf(ChainEnd(stack[1]))

\* The value encodings of a leaf: one for a comparison, one per element in
\* element order for an In, none for an Exist.
MinimalValues(leaf, log) ==
    LET vals == SelectSeq(log, IsValueCall)
    IN  [i \in 1..Len(vals) |-> vals[i].value]
          = CASE IsCompare(leaf) -> <<leaf.data[2]>>
              [] leaf.variant = "In" -> leaf.data[2]
              [] leaf.variant = "Exist" -> <<>>

\* The original claim C8: every leaf reached (comparison, In, Exist) makes
\* exactly one encode_name call and the minimal value encodings, all of
\* them before the leaf's clause primitive is invoked.
C8_OneNamePerLeaf ==
    LeafReached
    => LET leaf == ChainEnd(stack[1])
           log == LeafLog
       IN  /\ Len(SelectSeq(log, IsNameCall)) = 1
           /\ MinimalValues(leaf, log)
           /\ \A i, j \in 1..Len(log) :
                 (/\ log[i].prim \in {"encode_name", "encode_value"}
                  /\ log[j].prim \in {"encode_op_clause", "encode_in_clause",
                                      "encode_exist_clause"})
                 => i < j

\* C8 (amended): a comparison or In reached makes exactly one encode_name
\* call, an Exist one encode_name call per name (none without names), each
\* directly followed by encode_exist_clause for that name; the value
\* encodings are one for a comparison, one per element in element order
\* for an In, none for an Exist; for a comparison or In all of these calls
\* happen before the clause primitive, which is the leaf's last call.
C8_NameAndValuesFirst ==
    LeafReached
    => LET leaf == ChainEnd(stack[1])
           log == LeafLog
           names == SelectSeq(log, IsNameCall)
       IN  /\ MinimalValues(leaf, log)
           /\ leaf.variant # "Exist" =>
                 /\ Len(names) = 1
                 /\ names[1].name = to_string(leaf.data[1])
                 /\ Len(log) = 2 + Len(SelectSeq(log, IsValueCall))
                 /\ Last(log).prim = IF IsCompare(leaf) THEN "encode_op_clause"
                                     ELSE "encode_in_clause"
           /\ leaf.variant = "Exist" =>
                 /\ [i \in 1..Len(names) |-> names[i].name]
                      = [i \in 1..Len(leaf.data) |-> to_string(leaf.data[i])]
                 /\ Len(log) = 2 * Len(leaf.data)
                               + (IF Len(leaf.data) >= 2 THEN 1 ELSE 0)
                 /\ \A i \in 1..Len(leaf.data) :
                       /\ log[2 * i - 1].prim = "encode_name"
                       /\ log[2 * i].prim = "encode_exist_clause"

\* An In of two different values under a Not and an And was encoded: one
\* name encoding, the two values in element order, then encode_in_clause.
C8_Witness ==
    /\ LeafReached
    /\ stack[1].variant = "And"
    /\ stack[1].data[1].variant = "Not"
    /\ stack[1].data[1].data.variant = "In"
    /\ stack[1].data[1].data.data[2] = <<<<"2">>, <<"1">>>>
    /\ Len(LeafLog) = 4
    /\ LeafLog[2].value = <<"2">>
    /\ LeafLog[3].value = <<"1">>
    /\ LeafLog[4].prim = "encode_in_clause"
    /\ Len(out.r.self.log) = 5

=============================================================================
